---- MODULE Spec2Model ----
(***************************************************************************)
(* A model of rust-wkt: the WKT tokenizer, the recursive-descent geometry  *)
(* parser behind Wkt::from_str (src/src/lib.rs), Point::from_tokens        *)
(* (src/src/types/point.rs) and the WKT serializer.                        *)
(*                                                                         *)
(* Text is a sequence of one-character strings.  A number is an exact      *)
(* decimal [n |-> mantissa, d |-> fractional digits] in lowest form, which *)
(* is what f64 parsing and printing do to the short literals used here.    *)
(***************************************************************************)
EXTENDS Integers, Sequences, FiniteSets, TLC

(***************************************************************************)
(* Record shapes.  A Geometry is its variant and its payload; a parser     *)
(* result is Ok(value) or Err, with the count of tokens taken so far.      *)
(* The discriminating field of each record is named first.                 *)
(***************************************************************************)
Geometry(kind, value) == [kind |-> kind, value |-> value]

NoGeometry == [kind |-> "", value |-> << >>]

Ok(v, p) == [ok |-> TRUE, pos |-> p, val |-> v]

Err(p) == [ok |-> FALSE, pos |-> p, val |-> << >>]

Parsed(g) == [ok |-> TRUE, wkt |-> g]

Failed == [ok |-> FALSE, wkt |-> NoGeometry]

(***************************************************************************)
(* Characters                                                              *)
(***************************************************************************)
LowerLetters ==
    << "a","b","c","d","e","f","g","h","i","j","k","l","m",
       "n","o","p","q","r","s","t","u","v","w","x","y","z" >>

UpperLetters ==
    << "A","B","C","D","E","F","G","H","I","J","K","L","M",
       "N","O","P","Q","R","S","T","U","V","W","X","Y","Z" >>

Digits == << "0","1","2","3","4","5","6","7","8","9" >>

Range(s) == { s[i] : i \in 1..Len(s) }

IndexOf(s, c) == CHOOSE i \in 1..Len(s) : s[i] = c

\* a case-sensitive comparison: the character as it is
to_ascii_uppercase_identity(c) == c

\* AsciiExt::to_ascii_uppercase on one character
to_ascii_uppercase(c) ==
    IF c \in Range(LowerLetters) THEN UpperLetters[IndexOf(LowerLetters, c)] ELSE c

to_ascii_lowercase(c) ==
    IF c \in Range(UpperLetters) THEN LowerLetters[IndexOf(UpperLetters, c)] ELSE c

\* AsciiExt::to_ascii_uppercase on a string
UpperStr(s) == [ i \in 1..Len(s) |-> to_ascii_uppercase(s[i]) ]

LowerStr(s) == [ i \in 1..Len(s) |-> to_ascii_lowercase(s[i]) ]

\* the whitespace class without the carriage return
Whitespace_no_cr == { " ", "\t", "\n" }

Whitespace == { " ", "\t", "\n", "\r" }

is_whitespace(c) == c \in Whitespace

is_alphabetic(c) == c \in Range(LowerLetters) \cup Range(UpperLetters)

is_digit(c) == c \in Range(Digits)

is_numberlike(c) == is_digit(c) \/ c = "." \/ c = "-"

(***************************************************************************)
(* Numbers: the decimal literal grammar of f64::from_str restricted to     *)
(* sign, digits and one point, and the shortest decimal printing of f64.   *)
(***************************************************************************)
DigitVal(c) == IndexOf(Digits, c) - 1

RECURSIVE DigitsVal(_)
DigitsVal(s) ==
    IF Len(s) = 0 THEN 0
    ELSE 10 * DigitsVal(SubSeq(s, 1, Len(s) - 1)) + DigitVal(s[Len(s)])

RECURSIVE Pow10(_)
Pow10(k) == IF k = 0 THEN 1 ELSE 10 * Pow10(k - 1)

RECURSIVE Normalize(_, _)
Normalize(n, d) ==
    IF d > 0 /\ n % 10 = 0 THEN Normalize(n \div 10, d - 1) ELSE [n |-> n, d |-> d]

NoNumber == [ok |-> FALSE, n |-> 0, d |-> 0]

\* str::parse::<f64> of a run of number-like characters
ParseNumber(s) ==
    LET neg    == Len(s) > 0 /\ s[1] = "-"
        body   == IF neg THEN SubSeq(s, 2, Len(s)) ELSE s
        dots   == { i \in 1..Len(body) : body[i] = "." }
        dashes == { i \in 1..Len(body) : body[i] = "-" }
    IN  IF dashes # {} \/ Cardinality(dots) > 1 \/ Len(body) = Cardinality(dots)
        THEN NoNumber
        ELSE LET dot  == IF dots = {} THEN Len(body) + 1 ELSE CHOOSE i \in dots : TRUE
                 ip   == SubSeq(body, 1, dot - 1)
                 fp   == SubSeq(body, dot + 1, Len(body))
                 mag  == DigitsVal(ip) * Pow10(Len(fp)) + DigitsVal(fp)
                 norm == Normalize(mag, Len(fp))
             IN  [ok |-> TRUE, n |-> IF neg THEN -norm.n ELSE norm.n, d |-> norm.d]

RECURSIVE NatStr(_)
NatStr(n) ==
    IF n < 10 THEN << Digits[n + 1] >>
    ELSE NatStr(n \div 10) \o << Digits[(n % 10) + 1] >>

RECURSIVE PadLeft(_, _)
PadLeft(s, k) == IF Len(s) >= k THEN s ELSE PadLeft(<<"0">> \o s, k)

\* Display for f64: sign, integer part, and the fraction when there is one
FormatNumber(v) ==
    LET mag == IF v.n < 0 THEN -v.n ELSE v.n
        p   == Pow10(v.d)
        ip  == NatStr(mag \div p)
        fp  == IF v.d = 0 THEN << >> ELSE <<".">> \o PadLeft(NatStr(mag % p), v.d)
    IN  (IF v.n < 0 THEN <<"-">> ELSE << >>) \o ip \o fp

(***************************************************************************)
(* Tokenizer: a forward-only stream of tokens pulled on demand.            *)
(***************************************************************************)
Comma  == [type |-> "Comma",  text |-> << >>, n |-> 0, d |-> 0]
ParenOpen  == [type |-> "ParenOpen",  text |-> << >>, n |-> 0, d |-> 0]
ParenClose == [type |-> "ParenClose", text |-> << >>, n |-> 0, d |-> 0]
LexError   == [type |-> "Error", text |-> << >>, n |-> 0, d |-> 0]
Word(s)    == [type |-> "Word", text |-> s, n |-> 0, d |-> 0]
Number(v)  == [type |-> "Number", text |-> << >>, n |-> v.n, d |-> v.d]

RECURSIVE SkipWhitespace(_, _)
SkipWhitespace(s, i) ==
    IF i <= Len(s) /\ is_whitespace(s[i]) THEN SkipWhitespace(s, i + 1) ELSE i

\* the end (exclusive) of the maximal run of characters of one class from i
RECURSIVE RunEnd(_, _, _)
RunEnd(s, i, alpha) ==
    IF i <= Len(s) /\ (IF alpha THEN is_alphabetic(s[i]) ELSE is_numberlike(s[i]))
    THEN RunEnd(s, i + 1, alpha) ELSE i

\* Tokenizer::next from character position i: the token and the next position;
\* type "End" when the input is exhausted
NextToken(s, i) ==
    LET j == SkipWhitespace(s, i)
    IN  IF j > Len(s) THEN [tok |-> [type |-> "End", text |-> << >>, n |-> 0, d |-> 0], next |-> j]
        ELSE LET c == s[j]
             IN  IF c = "(" THEN [tok |-> ParenOpen, next |-> j + 1]
                 ELSE IF c = ")" THEN [tok |-> ParenClose, next |-> j + 1]
                 ELSE IF c = "," THEN [tok |-> Comma, next |-> j + 1]
                 ELSE IF is_alphabetic(c)
                      THEN LET e == RunEnd(s, j, TRUE)
                           IN  [tok |-> Word(SubSeq(s, j, e - 1)), next |-> e]
                 ELSE IF is_numberlike(c)
                      THEN LET e == RunEnd(s, j, FALSE)
                               v == ParseNumber(SubSeq(s, j, e - 1))
                           IN  [tok |-> IF v.ok THEN Number(v) ELSE LexError, next |-> e]
                 ELSE [tok |-> LexError, next |-> j + 1]

\* the whole stream: the tokens up to the end of input or the first lexical error
RECURSIVE TokensFrom(_, _)
TokensFrom(s, i) ==
    LET t == NextToken(s, i)
    IN  IF t.tok.type = "End" THEN << >>
        ELSE IF t.tok.type = "Error" THEN << LexError >>
        ELSE << t.tok >> \o TokensFrom(s, t.next)

Tokens(s) == TokensFrom(s, 1)

(***************************************************************************)
(* The geometry model (src/src/lib.rs, lines 31-56).  An Option is a       *)
(* sequence of length 0 (None) or 1 (Some); a Vec is a sequence.           *)
(***************************************************************************)
None == << >>
Some(v) == << v >>

\* a coordinate as the tests read it: x, y and the optional z and m
Coord(x, y) == [x |-> x, y |-> y, z |-> None, m |-> None]

\* the ordinates a coordinate carries
Ordinates(c) == 2 + Len(c.z) + Len(c.m)

Kinds ==
    { "Point", "LineString", "Polygon", "PolyhedralSurface", "Triangle", "Tin",
      "MultiPoint", "MultiLineString", "MultiPolygon", "GeometryCollection" }

\* enum Geometry: the payload type of each variant
TypeOf(kind) ==
    CASE kind = "Point"              -> "PointType"
      [] kind = "LineString"         -> "LineStringType"
      [] kind = "Polygon"            -> "PolygonType"
      [] kind = "PolyhedralSurface"  -> "PolyhedralSurfaceType"
      [] kind = "Triangle"           -> "PolygonType"
      [] kind = "Tin"                -> "PolyhedralSurfaceType"
      [] kind = "MultiPoint"         -> "MultiPointType"
      [] kind = "MultiLineString"    -> "MultiLineStringType"
      [] kind = "MultiPolygon"       -> "MultiPolygonType"
      [] kind = "GeometryCollection" -> "GeometryCollectionType"

\* the element types with MultiPolygonType = Vec<LineStringType>, one level short
ElemType_multipolygon_of_lines(ty) ==
    CASE ty = "LineStringType"         -> "Coord"
      [] ty = "PolygonType"            -> "LineStringType"
      [] ty = "PolyhedralSurfaceType"  -> "PolygonType"
      [] ty = "MultiPointType"         -> "PointType"
      [] ty = "MultiLineStringType"    -> "LineStringType"
      [] ty = "MultiPolygonType"       -> "LineStringType"
      [] ty = "GeometryCollectionType" -> "Geometry"

\* the type aliases: what each Vec holds
ElemType(ty) ==
    CASE ty = "LineStringType"         -> "Coord"
      [] ty = "PolygonType"            -> "LineStringType"
      [] ty = "PolyhedralSurfaceType"  -> "PolygonType"
      [] ty = "MultiPointType"         -> "PointType"
      [] ty = "MultiLineStringType"    -> "LineStringType"
      [] ty = "MultiPolygonType"       -> "PolygonType"
      [] ty = "GeometryCollectionType" -> "Geometry"

\* the tag word of each variant
TagOf(kind) ==
    CASE kind = "Point" -> <<"P","O","I","N","T">>
      [] kind = "LineString" -> <<"L","I","N","E","S","T","R","I","N","G">>
      [] kind = "Polygon" -> <<"P","O","L","Y","G","O","N">>
      [] kind = "PolyhedralSurface" -> <<"P","O","L","Y","H","E","D","R","A","L","S","U","R","F","A","C","E">>
      [] kind = "Triangle" -> <<"T","R","I","A","N","G","L","E">>
      [] kind = "Tin" -> <<"T","I","N">>
      [] kind = "MultiPoint" -> <<"M","U","L","T","I","P","O","I","N","T">>
      [] kind = "MultiLineString" -> <<"M","U","L","T","I","L","I","N","E","S","T","R","I","N","G">>
      [] kind = "MultiPolygon" -> <<"M","U","L","T","I","P","O","L","Y","G","O","N">>
      [] kind = "GeometryCollection" -> <<"G","E","O","M","E","T","R","Y","C","O","L","L","E","C","T","I","O","N">>

EMPTY == <<"E","M","P","T","Y">>

(***************************************************************************)
(* The parser.  Every routine takes the token stream ts and the number p   *)
(* of tokens already taken with next(), and returns Ok(value) or Err with  *)
(* the number of tokens taken when it returned.                            *)
(***************************************************************************)
EndToken == [type |-> "End", text |-> << >>, n |-> 0, d |-> 0]

\* Peekable::peek: the next token, not taken
Peek(ts, p) == IF p < Len(ts) THEN ts[p + 1] ELSE EndToken

\* the count of tokens taken after one next()
Advance(ts, p) == IF p < Len(ts) THEN p + 1 ELSE p

IsWord(t, w) == t.type = "Word" /\ UpperStr(t.text) = w

NumberOf(t) == [n |-> t.n, d |-> t.d]

\* Coord::from_tokens: the x and the y of a two-ordinate coordinate
Coord_from_tokens(ts, p) ==
    LET x == Peek(ts, p)
        y == Peek(ts, p + 1)
    IN  IF x.type # "Number" THEN Err(Advance(ts, p))
        ELSE IF y.type # "Number" THEN Err(Advance(ts, p + 1))
        ELSE Ok(Coord(NumberOf(x), NumberOf(y)), p + 2)

\* Point::from_tokens with the error of the coordinate replaced by a default
\* coordinate (unwrap_or_default in place of the early return)
Point_from_tokens_swallow(ts, p) ==
    LET coord == Coord_from_tokens(ts, p)
    IN  IF coord.ok THEN Ok([coord |-> coord.val], coord.pos)
        ELSE Ok([coord |-> Coord([n |-> 0, d |-> 0], [n |-> 0, d |-> 0])], p)

\* Point::from_tokens building the Point from a default coordinate, not from
\* the one it read
Point_from_tokens_default(ts, p) ==
    LET coord == Coord_from_tokens(ts, p)
    IN  IF coord.ok THEN Ok([coord |-> Coord([n |-> 0, d |-> 0], [n |-> 0, d |-> 0])], coord.pos)
        ELSE Err(coord.pos)

\* Point::from_tokens (src/src/types/point.rs)
Point_from_tokens(ts, p) ==
    LET coord == Coord_from_tokens(ts, p)
    IN  IF coord.ok THEN Ok([coord |-> coord.val], coord.pos)
        ELSE Err(coord.pos)

RECURSIVE from_tokens_with_parens(_, _, _)
RECURSIVE from_tokens(_, _, _)
RECURSIVE comma_many(_, _, _, _)
RECURSIVE Geometry_from_tokens(_, _)

\* one element of type ty: a raw coordinate, a tagged geometry, or a body
Element_from_tokens(ty, ts, p) ==
    IF ty = "Coord" THEN Coord_from_tokens(ts, p)
    ELSE IF ty = "Geometry" THEN Geometry_from_tokens(ts, p)
    ELSE IF ty = "PointType" /\ Peek(ts, p).type = "Number"
         THEN LET pt == Point_from_tokens(ts, p)
              IN  IF pt.ok THEN Ok(Some(pt.val.coord), pt.pos) ELSE Err(pt.pos)
    ELSE from_tokens_with_parens(ty, ts, p)

\* after the element e: the error, or a comma and the next element, or the end
comma_many_next(ty, ts, acc, e) ==
    IF ~e.ok THEN Err(e.pos)
    ELSE IF Peek(ts, e.pos).type = "Comma"
         THEN comma_many(ty, ts, e.pos + 1, Append(acc, e.val))
         ELSE Ok(Append(acc, e.val), e.pos)

\* Element (',' Element)*: acc holds the elements read so far
comma_many(ty, ts, p, acc) == comma_many_next(ty, ts, acc, Element_from_tokens(ty, ts, p))

\* what stands between the parentheses of a value of type ty
from_tokens(ty, ts, p) ==
    IF ty = "PointType"
    THEN LET pt == Point_from_tokens(ts, p)
         IN  IF pt.ok THEN Ok(Some(pt.val.coord), pt.pos) ELSE Err(pt.pos)
    ELSE comma_many(ElemType(ty), ts, p, << >>)

\* after the inside of a body: the error, or the closing parenthesis
close_paren(ts, inner) ==
    IF ~inner.ok THEN Err(inner.pos)
    ELSE IF Peek(ts, inner.pos).type # "ParenClose"
         THEN Err(Advance(ts, inner.pos))
         ELSE Ok(inner.val, inner.pos + 1)

\* Body := 'EMPTY' | '(' ... ')'
from_tokens_with_parens(ty, ts, p) ==
    IF IsWord(Peek(ts, p), EMPTY) THEN Ok(None, p + 1)
    ELSE IF Peek(ts, p).type # "ParenOpen" THEN Err(Advance(ts, p))
    ELSE close_paren(ts, from_tokens(ty, ts, p + 1))

\* the variant of a tag word, "" when the word is no tag
KindOfTag(w) ==
    IF \E k \in Kinds : TagOf(k) = UpperStr(w)
    THEN CHOOSE k \in Kinds : TagOf(k) = UpperStr(w)
    ELSE ""

\* the geometry of variant kind around its parsed body
tagged(kind, body) ==
    IF body.ok THEN Ok(Geometry(kind, body.val), body.pos) ELSE Err(body.pos)

\* the dispatch on the leading tag word
Geometry_from_tokens(ts, p) ==
    IF Peek(ts, p).type = "Word" /\ KindOfTag(Peek(ts, p).text) # ""
    THEN tagged(KindOfTag(Peek(ts, p).text),
                from_tokens_with_parens(TypeOf(KindOfTag(Peek(ts, p).text)), ts, p + 1))
    ELSE Err(Advance(ts, p))

\* wkt::parse_GeometryTaggedText
parse_GeometryTaggedText(s) == Geometry_from_tokens(Tokens(s), 0)

\* the arms of the match in from_str: Ok(geom) => Ok(Wkt(geom)), Err(..) => Err(())
Wkt_from(r) == IF r.ok THEN Parsed(r.val) ELSE Failed

\* from_str that also demands the end of the input after the geometry
from_str_strict(s) ==
    IF parse_GeometryTaggedText(s).pos = Len(Tokens(s))
    THEN Wkt_from(parse_GeometryTaggedText(s)) ELSE Failed

\* from_str with the error arm yielding a default geometry
from_str_default(s) ==
    IF parse_GeometryTaggedText(s).ok
    THEN Wkt_from(parse_GeometryTaggedText(s)) ELSE Parsed(Geometry("Point", None))

\* impl FromStr for Wkt (src/src/lib.rs)
from_str(s) == Wkt_from(parse_GeometryTaggedText(s))

(***************************************************************************)
(* The serializer: the tag, a space, and EMPTY or the parenthesized,       *)
(* comma-separated elements, recursively.                                  *)
(***************************************************************************)
Coord_to_wkt(c) ==
    FormatNumber(c.x) \o <<" ">> \o FormatNumber(c.y)
    \o (IF Len(c.z) = 1 THEN <<" ">> \o FormatNumber(c.z[1]) ELSE << >>)
    \o (IF Len(c.m) = 1 THEN <<" ">> \o FormatNumber(c.m[1]) ELSE << >>)

RECURSIVE Value_to_wkt(_, _)
RECURSIVE Elements_to_wkt(_, _, _)
RECURSIVE to_wkt(_)

\* the elements from the i-th on, ", " between siblings
Elements_to_wkt(ty, v, i) ==
    IF i > Len(v) THEN << >>
    ELSE (IF i > 1 THEN <<",", " ">> ELSE << >>)
         \o Value_to_wkt(ty, v[i]) \o Elements_to_wkt(ty, v, i + 1)

Value_to_wkt(ty, v) ==
    IF ty = "Coord" THEN Coord_to_wkt(v)
    ELSE IF ty = "Geometry" THEN to_wkt(v)
    ELSE IF Len(v) = 0 THEN EMPTY
    ELSE IF ty = "PointType" THEN <<"(">> \o Coord_to_wkt(v[1]) \o <<")">>
    ELSE <<"(">> \o Elements_to_wkt(ElemType(ty), v, 1) \o <<")">>

to_wkt(g) == TagOf(g.kind) \o <<" ">> \o Value_to_wkt(TypeOf(g.kind), g.value)

(***************************************************************************)
(* The geometries of a given weight: a coordinate weighs 1, an Option or a *)
(* Vec 1 more than what it holds, a member of a collection 1 more than its *)
(* payload.  pool is the set of coordinates used.                          *)
(***************************************************************************)
RECURSIVE ValuesOf(_, _, _)
RECURSIVE SeqsOf(_, _, _)

\* the sequences of elements of type ty whose weights add up to w
SeqsOf(ty, w, pool) ==
    IF w = 0 THEN { << >> }
    ELSE UNION { { <<e>> \o rest : e \in ValuesOf(ty, k, pool),
                                   rest \in SeqsOf(ty, w - k, pool) } : k \in 1..w }

ValuesOf(ty, w, pool) ==
    IF w = 0 THEN {}
    ELSE IF ty = "Coord" THEN (IF w = 1 THEN pool ELSE {})
    ELSE IF ty = "PointType"
         THEN (IF w = 1 THEN { None } ELSE IF w = 2 THEN { Some(c) : c \in pool } ELSE {})
    ELSE IF ty = "Geometry"
         THEN UNION { { Geometry(k, v) : v \in ValuesOf(TypeOf(k), w - 1, pool) } : k \in Kinds }
    ELSE SeqsOf(ElemType(ty), w - 1, pool)

GeometriesUpTo(w, pool) == UNION { ValuesOf("Geometry", k + 1, pool) : k \in 1..w }

\* every coordinate of a value of type ty, in order
RECURSIVE CoordsOf(_, _)
RECURSIVE CoordsOfSeq(_, _, _)
CoordsOfSeq(ty, v, i) ==
    IF i > Len(v) THEN << >> ELSE CoordsOf(ty, v[i]) \o CoordsOfSeq(ty, v, i + 1)

CoordsOf(ty, v) ==
    IF ty = "Coord" THEN << v >>
    ELSE IF ty = "Geometry" THEN CoordsOf(TypeOf(v.kind), v.value)
    ELSE IF ty = "PointType" THEN v
    ELSE CoordsOfSeq(ElemType(ty), v, 1)

Num(n, d) == [n |-> n, d |-> d]

(***************************************************************************)
(* Inputs: the texts of the tests of src/src/lib.rs and of the examples of *)
(* the specification, and the coordinates the generated geometries use.    *)
(***************************************************************************)
S_empty_string ==
    <<>>

S_point_empty ==
    <<"P","O","I","N","T"," ","E","M","P","T","Y">>

S_multipolygon_empty ==
    <<"M","U","L","T","I","P","O","L","Y","G","O","N"," ","E","M","P","T","Y">>

S_polygon ==
    <<"P","O","L","Y","G","O","N"," ","(","(","8"," ","4",","," ","4"," ","0",","," ","0"," ","4",","," ","8"," ","4",")",","," ","(","7"," ","3",","," ","4"," ","1",","," ","1"," ","4",","," ","7"," ","3",")",")">>

S_point ==
    <<"P","O","I","N","T"," ","(","1","0"," ","-","2","0",")">>

S_point_whitespace ==
    <<" ","\n","\t","\r","P","O","I","N","T"," ","\n","\t","\r","("," ","\n","\r","\t","1","0"," ","\n","\t","\r","-","2","0"," ","\n","\t","\r",")"," ","\n","\t","\r">>

S_invalid_point_1 ==
    <<"P","O","I","N","T"," ","(",")">>

S_invalid_point_2 ==
    <<"P","O","I","N","T"," ","(","1","0",")">>

S_invalid_point_3 ==
    <<"P","O","I","N","T"," ","1","0">>

S_invalid_point_4 ==
    <<"P","O","I","N","T"," ","(","1","0"," ","-","2","0"," ","4","0",")">>

S_multipolygon ==
    <<"M","U","L","T","I","P","O","L","Y","G","O","N"," ","(","(","(","8"," ","4",")",")",","," ","(","(","4"," ","0",")",")",")">>

S_multipoint ==
    <<"M","U","L","T","I","P","O","I","N","T"," ","(","(","8"," ","4",")",","," ","(","4"," ","0",")",")">>

S_multilinestring ==
    <<"M","U","L","T","I","L","I","N","E","S","T","R","I","N","G"," ","(","(","8"," ","4",","," ","-","3"," ","0",")",","," ","(","4"," ","0",","," ","6"," ","-","1","0",")",")">>

S_linestring ==
    <<"L","I","N","E","S","T","R","I","N","G"," ","(","1","0"," ","-","2","0",","," ","-","0"," ","-","0",".","5",")">>

S_geometrycollection ==
    <<"G","E","O","M","E","T","R","Y","C","O","L","L","E","C","T","I","O","N"," ","(","P","O","I","N","T"," ","(","8"," ","4",")",")",")">>

S_point_lower ==
    <<"p","o","i","n","t"," ","(","1"," ","2",")">>

S_multipoint_bare ==
    <<"M","U","L","T","I","P","O","I","N","T"," ","(","8"," ","4",","," ","E","M","P","T","Y",","," ","(","4"," ","0",")",")">>

S_tin ==
    <<"T","i","n"," ","(","(","(","1",".","5","0"," ","2",")",")",","," ","e","m","p","t","y",")">>

S_nested_collection ==
    <<"G","E","O","M","E","T","R","Y","C","O","L","L","E","C","T","I","O","N"," ","(","G","E","O","M","E","T","R","Y","C","O","L","L","E","C","T","I","O","N"," ","(","P","O","I","N","T"," ","(","8"," ","4",")",","," ","T","R","I","A","N","G","L","E"," ","E","M","P","T","Y",")",","," ","L","I","N","E","S","T","R","I","N","G"," ","(","1"," ","2",")",")">>

TestTexts ==
    { S_empty_string,
      S_point_empty,
      S_multipolygon_empty,
      S_polygon,
      S_point,
      S_point_whitespace,
      S_invalid_point_1,
      S_invalid_point_2,
      S_invalid_point_3,
      S_invalid_point_4,
      S_multipolygon,
      S_multipoint,
      S_multilinestring,
      S_linestring,
      S_geometrycollection }

ExampleTexts ==
    { S_point_lower,
      S_multipoint_bare,
      S_tin,
      S_nested_collection }

Samples == TestTexts \cup ExampleTexts

CoordA == Coord(Num(10, 0), Num(-20, 0))
CoordB == Coord(Num(-5, 1), Num(0, 0))
CoordZ == [x |-> Num(10, 0), y |-> Num(-20, 0), z |-> Some(Num(40, 0)), m |-> None]
CoordZM == [x |-> Num(1, 0), y |-> Num(2, 0), z |-> Some(Num(3, 0)), m |-> Some(Num(425, 2))]

Pool2 == { CoordA, CoordB }
PoolZM == { CoordA, CoordB, CoordZ, CoordZM }

(***************************************************************************)
(* Bounds                                                                  *)
(***************************************************************************)
\* the weight of the geometries serialized and parsed back
MaxWeight == 6

\* the weight of the geometries whose texts are edited before parsing
MaxBaseWeight == 2

\* the length of the token streams handed to the Point parser
MaxTokens == 5

(***************************************************************************)
(* State                                                                   *)
(***************************************************************************)
VARIABLES
    pc,          \* the step reached
    geom,        \* the in-memory geometry handed to the serializer
    text,        \* the input text
    alt,         \* a second input: text after one edit
    altKind,     \* the edit that made alt
    res,         \* Wkt::from_str(text)
    consumed,    \* the tokens the parser took from text
    altRes,      \* Wkt::from_str(alt)
    altConsumed, \* the tokens the parser took from alt
    out,         \* the serialization of the parsed geometry
    res2,        \* Wkt::from_str(out)
    ts,          \* a token stream handed to the Point parser
    start,       \* the tokens of ts already taken
    ptRes,       \* Point::from_tokens on ts at start
    bodyRes      \* the Point body parser on ts

vars == << pc, geom, text, alt, altKind, res, consumed, altRes, altConsumed,
           out, res2, ts, start, ptRes, bodyRes >>

NoResult == Failed

Idle ==
    /\ res = NoResult /\ altRes = NoResult /\ res2 = NoResult
    /\ consumed = 0 /\ altConsumed = 0
    /\ out = << >>
    /\ ptRes = Err(0) /\ bodyRes = Err(0)

RoundTripGeometries ==
    GeometriesUpTo(MaxWeight, Pool2) \cup GeometriesUpTo(MaxWeight - 2, PoolZM)

BaseTexts ==
    Samples \cup { to_wkt(g) : g \in GeometriesUpTo(MaxBaseWeight, PoolZM) }

TokenAlphabet ==
    { Number(Num(10, 0)), Number(Num(-5, 1)), Comma, ParenOpen, ParenClose, Word(EMPTY) }

TokenStreams == UNION { [1..k -> TokenAlphabet] : k \in 0..MaxTokens }

(***************************************************************************)
(* Editing an input text                                                   *)
(***************************************************************************)
InsertAt(s, i, c) == SubSeq(s, 1, i) \o << c >> \o SubSeq(s, i + 1, Len(s))

RemoveAt(s, i) == SubSeq(s, 1, i - 1) \o SubSeq(s, i + 1, Len(s))

FlipCase(c) == IF c \in Range(LowerLetters) THEN to_ascii_uppercase(c) ELSE to_ascii_lowercase(c)

\* the gap after the i-th character lies between two tokens, not inside one
BetweenTokens(s, i) ==
    ~ ( /\ i >= 1 /\ i < Len(s)
        /\ \/ is_alphabetic(s[i]) /\ is_alphabetic(s[i + 1])
           \/ is_numberlike(s[i]) /\ is_numberlike(s[i + 1]) )

Blanks == { " ", "\t", "\n", "\r" }

Trailers ==
    { <<")">>, <<",">>, <<"(">>, <<"@">>, <<" ", "1">>, <<" ", "E","M","P","T","Y">>,
      <<" ", "P","O","I","N","T">>, <<" ", "(", "1", " ", "2", ")">> }

Inserted == { "(", ")", ",", "1", "@" }

InsertWhitespace ==
    /\ pc = "text"
    /\ \E i \in 0..Len(text), c \in Blanks :
          /\ BetweenTokens(text, i)
          /\ alt' = InsertAt(text, i, c)
    /\ altKind' = "whitespace"
    /\ pc' = "edited"
    /\ UNCHANGED << geom, text, res, consumed, altRes, altConsumed, out, res2,
                    ts, start, ptRes, bodyRes >>

ChangeCase ==
    /\ pc = "text"
    /\ \E i \in 1..Len(text) :
          /\ is_alphabetic(text[i])
          /\ alt' = [text EXCEPT ![i] = FlipCase(text[i])]
    /\ altKind' = "case"
    /\ pc' = "edited"
    /\ UNCHANGED << geom, text, res, consumed, altRes, altConsumed, out, res2,
                    ts, start, ptRes, bodyRes >>

AppendTrailing ==
    /\ pc = "text"
    /\ \E t \in Trailers : alt' = text \o t
    /\ altKind' = "trailing"
    /\ pc' = "edited"
    /\ UNCHANGED << geom, text, res, consumed, altRes, altConsumed, out, res2,
                    ts, start, ptRes, bodyRes >>

DeleteChar ==
    /\ pc = "text"
    /\ \E i \in 1..Len(text) : alt' = RemoveAt(text, i)
    /\ altKind' = "delete"
    /\ pc' = "edited"
    /\ UNCHANGED << geom, text, res, consumed, altRes, altConsumed, out, res2,
                    ts, start, ptRes, bodyRes >>

InsertChar ==
    /\ pc = "text"
    /\ \E i \in 0..Len(text), c \in Inserted : alt' = InsertAt(text, i, c)
    /\ altKind' = "insert"
    /\ pc' = "edited"
    /\ UNCHANGED << geom, text, res, consumed, altRes, altConsumed, out, res2,
                    ts, start, ptRes, bodyRes >>

(***************************************************************************)
(* The operations                                                          *)
(***************************************************************************)
\* Wkt::from_str on the text and on its edited form
Parse ==
    /\ pc = "edited"
    /\ res' = from_str(text)
    /\ consumed' = parse_GeometryTaggedText(text).pos
    /\ altRes' = from_str(alt)
    /\ altConsumed' = parse_GeometryTaggedText(alt).pos
    /\ pc' = "parsed"
    /\ UNCHANGED << geom, text, alt, altKind, out, res2, ts, start, ptRes, bodyRes >>

\* the serializer on the geometry
Serialize ==
    /\ pc = "geom"
    /\ text' = to_wkt(geom)
    /\ pc' = "text"
    /\ UNCHANGED << geom, alt, altKind, res, consumed, altRes, altConsumed, out, res2,
                    ts, start, ptRes, bodyRes >>

\* Wkt::from_str on the text
ParseText ==
    /\ pc = "text"
    /\ res' = from_str(text)
    /\ consumed' = parse_GeometryTaggedText(text).pos
    /\ pc' = "parsed"
    /\ UNCHANGED << geom, text, alt, altKind, altRes, altConsumed, out, res2,
                    ts, start, ptRes, bodyRes >>

\* the serializer on the parsed geometry
Reserialize ==
    /\ pc = "parsed"
    /\ res.ok
    /\ out' = to_wkt(res.wkt)
    /\ pc' = "serialized"
    /\ UNCHANGED << geom, text, alt, altKind, res, consumed, altRes, altConsumed, res2,
                    ts, start, ptRes, bodyRes >>

\* Wkt::from_str on the serialization
Reparse ==
    /\ pc = "serialized"
    /\ res2' = from_str(out)
    /\ pc' = "reparsed"
    /\ UNCHANGED << geom, text, alt, altKind, res, consumed, altRes, altConsumed, out,
                    ts, start, ptRes, bodyRes >>

\* Point::from_tokens on the stream at start, and the Point body parser on it
ParsePoint ==
    /\ pc = "tokens"
    /\ ptRes' = Point_from_tokens(ts, start)
    /\ bodyRes' = from_tokens_with_parens("PointType", ts, 0)
    /\ pc' = "point"
    /\ UNCHANGED << geom, text, alt, altKind, res, consumed, altRes, altConsumed, out, res2,
                    ts, start >>

(***************************************************************************)
(* Specifications                                                          *)
(***************************************************************************)
\* texts, edited once and parsed
Init ==
    /\ pc = "text"
    /\ text \in BaseTexts
    /\ alt = << >> /\ altKind = "none"
    /\ geom = NoGeometry
    /\ ts = << >> /\ start = 0
    /\ Idle

Next ==
    \/ InsertWhitespace
    \/ ChangeCase
    \/ AppendTrailing
    \/ DeleteChar
    \/ InsertChar
    \/ Parse

Spec == Init /\ [][Next]_vars

\* geometries serialized, parsed, serialized and parsed again
InitRoundTrip ==
    /\ \/ pc = "geom" /\ geom \in RoundTripGeometries /\ text = << >>
       \/ pc = "text" /\ geom = NoGeometry /\ text \in Samples
    /\ alt = << >> /\ altKind = "none"
    /\ ts = << >> /\ start = 0
    /\ Idle

NextRoundTrip ==
    \/ Serialize
    \/ ParseText
    \/ Reserialize
    \/ Reparse

SpecRoundTrip == InitRoundTrip /\ [][NextRoundTrip]_vars

\* token streams handed to the Point parser
InitPoint ==
    /\ pc = "tokens"
    /\ ts \in TokenStreams
    /\ start \in 0..1
    /\ start <= Len(ts)
    /\ geom = NoGeometry /\ text = << >>
    /\ alt = << >> /\ altKind = "none"
    /\ Idle

NextPoint == ParsePoint

SpecPoint == InitPoint /\ [][NextPoint]_vars

(***************************************************************************)
(* Properties                                                              *)
(***************************************************************************)
AfterParse == pc \in { "parsed", "serialized", "reparsed" }

\* every coordinate of g carries c ordinates
Uniform(g, c) ==
    \A i \in 1..Len(CoordsOf("Geometry", g)) : Ordinates(CoordsOf("Geometry", g)[i]) = c

\* the length of the run of Number tokens that follows the first p tokens
RECURSIVE NumRun(_, _)
NumRun(tk, p) == IF Peek(tk, p).type = "Number" THEN 1 + NumRun(tk, p + 1) ELSE 0

\* the tokens of t begin with the tag of variant k
StartsWithTag(tk, k) ==
    Len(tk) >= 1 /\ tk[1].type = "Word" /\ UpperStr(tk[1].text) = TagOf(k)

C2_EmptyOf(tk, r, c) ==
    \A k \in Kinds :
        (StartsWithTag(tk, k) /\ IsWord(Peek(tk, 1), EMPTY))
            => (r = Parsed(Geometry(k, << >>)) /\ c = 2)

\* C2: a tag followed by EMPTY, whatever follows, parses to the geometry of
\* that kind with no element, and the parser takes nothing after EMPTY.
C2_Empty ==
    pc = "parsed" => /\ C2_EmptyOf(Tokens(text), res, consumed)
                     /\ C2_EmptyOf(Tokens(alt), altRes, altConsumed)

C2_Witness ==
    /\ pc = "parsed"
    /\ altKind = "trailing"
    /\ StartsWithTag(Tokens(alt), "Tin")
    /\ Len(Tokens(alt)) > 2
    /\ altRes = Parsed(Geometry("Tin", << >>))
    /\ altConsumed = 2

\* a parse that succeeded began with a tag word
C3_TagFirst(tk, r) ==
    r.ok => \E k \in Kinds : StartsWithTag(tk, k)

\* C3: a parse succeeds only when the first token is one of the ten tag
\* words, in any letter case; an empty or blank input fails; and changing
\* the case of a letter of a keyword changes nothing.
C3_Dispatch ==
    pc = "parsed" =>
        /\ C3_TagFirst(Tokens(text), res) /\ C3_TagFirst(Tokens(alt), altRes)
        /\ Tokens(text) = << >> => ~res.ok
        /\ Tokens(alt) = << >> => ~altRes.ok
        /\ altKind = "case" => altRes = res

C3_Witness ==
    /\ pc = "parsed"
    /\ altKind = "case"
    /\ alt # text
    /\ res.ok
    /\ altRes = res

InvalidPoints == { S_invalid_point_1, S_invalid_point_2, S_invalid_point_3, S_invalid_point_4 }

\* C5: "POINT ()", "POINT (10)", "POINT 10" and "POINT (10 -20 40)" fail to
\* parse and yield no Wkt.
C5_InvalidPoints ==
    pc = "parsed" =>
        /\ text \in InvalidPoints => res = Failed
        /\ alt \in InvalidPoints => altRes = Failed

C5_Witness ==
    /\ pc = "parsed"
    /\ text = S_invalid_point_4
    /\ res = Failed
    /\ consumed = 5

\* C6: a space, tab, newline or carriage return put before the first token,
\* after the last or between two tokens leaves the outcome as it was.
C6_Whitespace ==
    (pc = "parsed" /\ altKind = "whitespace") => (altRes = res /\ altConsumed = consumed)

C6_Witness ==
    /\ pc = "parsed"
    /\ altKind = "whitespace"
    /\ Len(alt) = Len(text) + 1
    /\ "\r" \in Range(alt) /\ "\r" \notin Range(text)
    /\ res.ok
    /\ altRes = res

\* the counts of tokens taken before each element of the list that starts
\* after the first p tokens: the list's start and every comma at depth 0,
\* up to the parenthesis that closes the list
RECURSIVE ElementStarts(_, _, _, _)
ElementStarts(tk, p, depth, acc) ==
    IF p >= Len(tk) THEN acc
    ELSE IF tk[p + 1].type = "ParenOpen" THEN ElementStarts(tk, p + 1, depth + 1, acc)
    ELSE IF tk[p + 1].type = "ParenClose"
         THEN (IF depth = 0 THEN acc ELSE ElementStarts(tk, p + 1, depth - 1, acc))
    ELSE IF tk[p + 1].type = "Comma" /\ depth = 0
         THEN ElementStarts(tk, p + 1, depth, Append(acc, p + 1))
    ELSE ElementStarts(tk, p + 1, depth, acc)

\* the body that starts after the first p tokens holds the elements of v, one
\* for each comma-separated piece and in the order of the pieces, at every
\* level of nesting
RECURSIVE BodyInOrder(_, _, _, _)
BodyInOrder(ty, tk, p, v) ==
    IF ty \in { "Coord", "PointType" } THEN TRUE
    ELSE IF ty = "Geometry" THEN BodyInOrder(TypeOf(v.kind), tk, p + 1, v.value)
    ELSE IF Peek(tk, p).type # "ParenOpen" THEN Len(v) = 0
    ELSE LET st == ElementStarts(tk, p + 1, 0, << p + 1 >>)
         IN  /\ Len(v) = Len(st)
             /\ \A i \in 1..Len(st) :
                   /\ Element_from_tokens(ElemType(ty), tk, st[i]) \in
                         { Ok(v[i], q) : q \in st[i]..Len(tk) }
                   /\ BodyInOrder(ElemType(ty), tk, st[i], v[i])

\* the texts of the tests that count two elements
TwoElementTexts == { S_polygon, S_multipolygon, S_multipoint, S_multilinestring, S_linestring }

\* C7: a parsed body '(' e1 ',' ... ',' ek ')' holds exactly k elements, the
\* i-th being the parse of ei, at every level of nesting; the texts of the
\* tests hold two elements each, those of the LineString in the order written.
C7_Order ==
    /\ (AfterParse /\ res.ok) => BodyInOrder("Geometry", Tokens(text), 0, res.wkt)
    /\ (AfterParse /\ text \in TwoElementTexts) => (res.ok /\ Len(res.wkt.value) = 2)
    /\ (AfterParse /\ text = S_linestring) =>
           res.wkt.value = << Coord(Num(10, 0), Num(-20, 0)), Coord(Num(0, 0), Num(-5, 1)) >>

C7_Witness ==
    /\ pc = "parsed"
    /\ res.ok
    /\ res.wkt.kind = "MultiPolygon"
    /\ Len(res.wkt.value) = 2
    /\ Len(res.wkt.value[1]) = 1 /\ Len(res.wkt.value[2]) = 0

\* the count of tokens up to the third number of the first run of more than
\* two numbers, 0 when there is no such run
RECURSIVE ThirdNumber(_, _)
ThirdNumber(tk, p) ==
    IF p >= Len(tk) THEN 0
    ELSE IF NumRun(tk, p) > 2 THEN p + 3
    ELSE IF NumRun(tk, p) > 0 THEN ThirdNumber(tk, p + NumRun(tk, p))
    ELSE ThirdNumber(tk, p + 1)

\* the count of tokens before the first run of numbers whose length differs
\* from the length of the first run, 0 when all runs agree
RECURSIVE FirstMismatch(_, _, _)
FirstMismatch(tk, p, first) ==
    IF p >= Len(tk) THEN 0
    ELSE IF NumRun(tk, p) = 0 THEN FirstMismatch(tk, p + 1, first)
    ELSE IF first = 0 THEN FirstMismatch(tk, p + NumRun(tk, p), NumRun(tk, p))
    ELSE IF NumRun(tk, p) # first THEN p
    ELSE FirstMismatch(tk, p + NumRun(tk, p), first)

C9_Trailing ==
    pc = "parsed" =>
        /\ (altKind = "trailing" /\ res.ok) => (altRes = res /\ altConsumed = consumed)
        /\ text = S_geometrycollection =>
              /\ res = Parsed(Geometry("GeometryCollection",
                          << Geometry("Point", Some(Coord(Num(8, 0), Num(4, 0)))) >>))
              /\ consumed < Len(Tokens(text))

C9_Witness ==
    /\ pc = "parsed"
    /\ altKind = "trailing"
    /\ text = S_geometrycollection
    /\ res.ok
    /\ altRes = res
    /\ altConsumed < Len(Tokens(alt)) - 1

\* the error of an inner parser is the error of the whole parse
C10_Propagated(inner, r, c) ==
    ~inner.ok => (~r.ok /\ c = inner.pos)

\* the outcome r of a parse of tk that took c tokens, d being the dispatch's result
C10_Outcome(tk, d, r, c) ==
    /\ r.ok = d.ok
    /\ r.ok => r.wkt = d.val
    /\ ~r.ok => r = Failed
    /\ c = d.pos
    /\ ~r.ok => Geometry_from_tokens(SubSeq(tk, 1, c), 0) = Err(c)
    /\ (StartsWithTag(tk, "Point") /\ Peek(tk, 1).type = "ParenOpen")
          => C10_Propagated(Coord_from_tokens(tk, 2), r, c)
    /\ (StartsWithTag(tk, "GeometryCollection") /\ Peek(tk, 1).type = "ParenOpen")
          => C10_Propagated(Geometry_from_tokens(tk, 2), r, c)

====
